---- MODULE Spec2Model ----
(***************************************************************************)
(* A model of prefect.environments.storage.docker.Docker: construction,    *)
(* the flow registry (add_flow / __contains__), and build() with its       *)
(* helpers (_build_image, pull_image, create_dockerfile_object,            *)
(* push_image), run against a Docker daemon whose answers are              *)
(* nondeterministic.                                                       *)
(*                                                                         *)
(* Python values: None is the string None below; a str is a TLA+ string;  *)
(* a filesystem path is the sequence of its components, an absolute one    *)
(* starting with the root component "/"; a dict is the sequence of its     *)
(* items in insertion order.                                               *)
(***************************************************************************)
EXTENDS Naturals, Sequences, FiniteSets, TLC

None == "<None>"

\* Python truthiness of an optional str.
Truthy(x) == x # None /\ x # ""

\* `a or b` on optional strs.
Or(a, b) == IF Truthy(a) THEN a ELSE b

Range(s) == {s[i] : i \in 1..Len(s)}

\* The sequences over S without repetition, of length at most n.
DistinctSeqs(S, n) ==
    {s \in UNION {[1..k -> S] : k \in 0..n} :
        \A i, j \in 1..Len(s) : i # j => s[i] # s[j]}

----------------------------------------------------------------------------
(* Bounds of the model. *)

\* Records the daemon may stream in answer to one pull, push or build.
MaxStream == 2
\* build() calls on the storage object.
MaxBuilds == 2
\* Entries of the files mapping.
MaxFiles == 2

----------------------------------------------------------------------------
(* The values the model draws its inputs from. *)

RegistryUrls == {None, "reg.io"}
BaseImages   == {None, "python:3.6"}
Dockerfiles  == {None, "Dockerfile"}
ImageNames   == {None, "explicit"}
ImageTags    == {None, "v1"}

\* Flow names (two of them share a slug) and flow payloads.
FlowNames == {"My Flow!", "my flow", "etl"}
Payloads  == {"p1", "p2"}

\* What pendulum.now("utc").isoformat() may return, and uuid.uuid4().
Timestamps == {"2019-11-05T15:32:00+00:00", "2019-11-05T15:33:00+00:00"}
UUIDs      == {"uuid-a", "uuid-b"}

\* slugify() on the strings the model passes to it.
slugify(s) ==
    CASE s = "My Flow!" -> "my-flow"
      [] s = "my flow"  -> "my-flow"
      [] s = "etl"      -> "etl"
      [] s = "2019-11-05T15:32:00+00:00" -> "2019-11-05t15-32-00-00-00"
      [] s = "2019-11-05T15:33:00+00:00" -> "2019-11-05t15-33-00-00-00"
      [] OTHER -> s

\* The library version (prefect.__version__.split("+")) and the interpreter's
\* major.minor version.
LibraryVersions == {<<"0.7.3">>, <<"0.7.3", "12.gabcdef">>}
python_version  == "3.7"

PrefectVersions == {None, "0.7.3", "master"}

\* re.match("^[0-9]+\.[0-9]+\.[0-9]+$", v) != None, on the versions above.
IsReleaseVersion(v) == v \in {"0.7.3"}

\* Source files on the caller's disk: path -> content (a byte sequence) and
\* modification time.  All four absolute ones share the basename data.txt.
PathA == <<"/", "a", "data.txt">>
PathB == <<"/", "b", "data.txt">>
PathC == <<"/", "c", "data.txt">>
PathD == <<"/", "d", "data.txt">>
PathE == <<"/", "a", "extra.txt">>
PathR == <<"conf", "data.txt">>
Disk(p) ==
    CASE p = PathA -> [content |-> <<1, 2>>, mtime |-> 10]
      [] p = PathB -> [content |-> <<1, 3>>, mtime |-> 10]
      [] p = PathC -> [content |-> <<1, 2>>, mtime |-> 20]
      [] p = PathD -> [content |-> <<7, 7, 7>>, mtime |-> 10]
      [] p = PathE -> [content |-> <<5>>, mtime |-> 10]
      [] OTHER     -> [content |-> <<9>>, mtime |-> 30]

----------------------------------------------------------------------------
(* os.path *)

isabs(p) == Len(p) > 0 /\ p[1] = "/"
basename(p) == p[Len(p)]

----------------------------------------------------------------------------
(* Python containers.  An Optional[list] or Optional[dict] argument is <<>> *)
(* for None and <<value>> when given.                                      *)

NotGiven == <<>>
Given(v) == <<v>>

\* `arg or []`, `arg or {}`: the caller's own object when it is given and
\* non-empty, a new empty one otherwise.
OrEmpty(arg) == IF arg # NotGiven /\ arg[1] # <<>> THEN arg[1] ELSE <<>>
Aliased(arg) == arg # NotGiven /\ arg[1] # <<>>

Keys(d) == {d[i][1] : i \in 1..Len(d)}
KeyList(d) == [i \in 1..Len(d) |-> d[i][1]]
Get(d, k) == d[CHOOSE i \in 1..Len(d) : d[i][1] = k][2]
\* d[k] = v
Put(d, k, v) ==
    IF k \in Keys(d)
    THEN [i \in 1..Len(d) |-> IF d[i][1] = k THEN <<k, v>> ELSE d[i]]
    ELSE Append(d, <<k, v>>)
\* d.setdefault(k, v)
SetDefault(d, k, v) == IF k \in Keys(d) THEN d ELSE Append(d, <<k, v>>)

----------------------------------------------------------------------------
(* Docker.__init__ *)

AptCommand == "apt update && apt install -y gcc git && rm -rf /var/lib/apt/lists/*"
InstallPrefect(v) ==
    "pip show prefect || pip install git+https://github.com/PrefectHQ/prefect.git@"
        \o v \o "#egg=prefect[kubernetes]"

\* Lines 96-100.
ResolvePrefectVersion(prefect_version, version) ==
    IF prefect_version = None
    THEN (IF Len(version) > 1 THEN "master" ELSE version[1])
    ELSE prefect_version

\* ChooseBaseImage without its check that only one of the two is given.
ChooseBaseImageLenient(base_image, dockerfile, prefect_version) ==
    IF base_image = None /\ dockerfile = None
    THEN [raised |-> FALSE,
          base_image |-> "python:" \o python_version \o "-slim",
          extra_commands |-> <<AptCommand>>]
    ELSE [raised |-> FALSE, base_image |-> base_image, extra_commands |-> <<>>]

\* Lines 102-121: the base image and the extra commands it needs, or the error
\* when both a base image and a dockerfile are given.
ChooseBaseImage(base_image, dockerfile, prefect_version) ==
    IF base_image = None /\ dockerfile = None
    THEN IF IsReleaseVersion(prefect_version)
         THEN [raised |-> FALSE,
               base_image |-> "prefecthq/prefect:" \o prefect_version
                                  \o "-python" \o python_version,
               extra_commands |-> <<>>]
         ELSE [raised |-> FALSE,
               base_image |-> "python:" \o python_version \o "-slim",
               extra_commands |-> <<AptCommand>>]
    ELSE IF Truthy(base_image) /\ Truthy(dockerfile)
    THEN [raised |-> TRUE, base_image |-> None, extra_commands |-> <<>>]
    ELSE [raised |-> FALSE, base_image |-> base_image, extra_commands |-> <<>>]

\* not_absolute looking at the first key only.
not_absolute_first(files) ==
    IF files # <<>> /\ ~isabs(files[1][1]) THEN <<files[1][1]>> ELSE <<>>

\* Lines 132-134: the keys of the files mapping that are not absolute.
not_absolute(files) == SelectSeq(KeyList(files), LAMBDA p : ~isabs(p))

ConfigurationError == [type |-> "ValueError", what |-> "configuration"]
NoError == [type |-> None, what |-> None]

\* The attributes no object has (a construction that raised yields none).
NoObject == [constructed |-> FALSE]

\* The whole constructor on the arguments a: what it raises, the object it
\* leaves, and the caller's own dependency list and environment mapping after
\* the call (lines 81-87 append to and set a default in the caller's objects
\* when these are given and non-empty).
Docker__init__(a) ==
    LET python_dependencies == Append(OrEmpty(a.python_dependencies), "wheel")
        env_vars == SetDefault(OrEmpty(a.env_vars),
                               "PREFECT__USER_CONFIG_PATH", "/root/.prefect/config.toml")
        files == OrEmpty(a.files)
        prefect_version == ResolvePrefectVersion(a.prefect_version, a.version)
        base == ChooseBaseImage(a.base_image, a.dockerfile, prefect_version)
        raised == base.raised \/ not_absolute(files) # <<>>
        caller == [python_dependencies |->
                       IF Aliased(a.python_dependencies)
                       THEN Given(python_dependencies) ELSE a.python_dependencies,
                   env_vars |->
                       IF Aliased(a.env_vars) THEN Given(env_vars) ELSE a.env_vars]
    IN  [exc |-> IF raised THEN ConfigurationError ELSE NoError,
         caller |-> caller,
         self |-> IF raised THEN NoObject
                  ELSE [constructed |-> TRUE,
                        registry_url |-> a.registry_url,
                        image_name |-> a.image_name,
                        image_tag |-> a.image_tag,
                        python_dependencies |-> python_dependencies,
                        env_vars |-> env_vars,
                        files |-> files,
                        flows |-> <<>>,
                        _flows |-> <<>>,
                        local_image |-> a.local_image,
                        prefect_version |-> prefect_version,
                        base_image |-> base.base_image,
                        dockerfile |-> a.dockerfile,
                        extra_commands |-> Append(base.extra_commands,
                                                  InstallPrefect(prefect_version))]]

----------------------------------------------------------------------------
(* The flow registry: Docker.__contains__ and Docker.add_flow *)

\* Lines 234-236; every name of the model is a str.
Contains(obj, name) == name \in Keys(obj.flows)

FlowPath(name) == "/root/.prefect/flows/" \o slugify(name) \o ".prefect"

NameConflict == [type |-> "ValueError", what |-> "name conflict"]

\* add_flow without its check of the name: a second add replaces the first.
add_flow_replacing(obj, name, payload) ==
    [exc |-> NoError,
     ret |-> FlowPath(name),
     self |-> [obj EXCEPT !.flows = Put(@, name, FlowPath(name)),
                          !._flows = Put(@, name, payload)]]

\* Lines 192-201: the error or the returned path, and the object afterwards.
add_flow(obj, name, payload) ==
    IF Contains(obj, name)
    THEN [exc |-> NameConflict, ret |-> None, self |-> obj]
    ELSE [exc |-> NoError,
          ret |-> FlowPath(name),
          self |-> [obj EXCEPT !.flows = Put(@, name, FlowPath(name)),
                               !._flows = Put(@, name, payload)]]

----------------------------------------------------------------------------
(* Files: filecmp.cmp, shutil.copy2 and the staging of create_dockerfile_object *)

\* filecmp.cmp(f1, f2) with its default shallow=True: equal os.stat signatures
\* (size and modification time; both are regular files) count as equal
\* without reading the files; otherwise the sizes, then the contents, decide.
filecmp_cmp(f1, f2) ==
    IF Len(f1.content) = Len(f2.content) /\ f1.mtime = f2.mtime THEN TRUE
    ELSE IF Len(f1.content) # Len(f2.content) THEN FALSE
    ELSE f1.content = f2.content

\* A directory is a function from the names in it to the files.
EmptyDir == <<>>
Exists(dir, name) == name \in DOMAIN dir
WriteFile(dir, name, file) == (name :> file) @@ dir

\* Lines 372-386 from entry i of the files mapping on: each source is copied
\* (shutil.copy2 keeps content and modification time) under its basename,
\* unless a file of that name is there already and compares unequal.
RECURSIVE StageFiles(_, _, _)
StageFiles(files, i, dir) ==
    IF i > Len(files) THEN [raised |-> FALSE, dir |-> dir, copied |-> i - 1]
    ELSE LET src == files[i][1]
             fname == basename(src)
         IN  IF Exists(dir, fname) /\ filecmp_cmp(Disk(src), dir[fname]) = FALSE
             THEN [raised |-> TRUE, dir |-> dir, copied |-> i - 1]
             ELSE StageFiles(files, i + 1, WriteFile(dir, fname, Disk(src)))

\* Lines 390-394 from entry i of self.flows on: each flow is pickled to
\* <slug of its name>.flow.
RECURSIVE StageFlows(_, _, _)
StageFlows(obj, i, dir) ==
    IF i > Len(obj.flows) THEN dir
    ELSE LET flow_name == obj.flows[i][1]
         IN  StageFlows(obj, i + 1,
                        WriteFile(dir, slugify(flow_name) \o ".flow",
                                  [pickled |-> Get(obj._flows, flow_name)]))

\* The text of the file a dockerfile argument names, line by line (it ends
\* with a newline), and str((sys.version_info.major, sys.version_info.minor)).
DockerfileText == <<"FROM my/base:1", "RUN make tools">>
python_version_tuple == "(3, 7)"

RECURSIVE Concat(_)
Concat(s) == IF s = <<>> THEN "" ELSE s[1] \o Concat(Tail(s))

\* sep.join(s)
RECURSIVE JoinStr(_, _)
JoinStr(sep, s) ==
    IF s = <<>> THEN ""
    ELSE IF Len(s) = 1 THEN s[1]
    ELSE s[1] \o sep \o JoinStr(sep, Tail(s))

\* A text is modelled by text.split("\n") with every line lstripped (line
\* 454): the lines of k lines that end with a newline each are those k
\* lines and an empty one.
Terminated(lines) == Append(lines, "")

\* os.path.join(directory, fname), or fname alone when the build context is
\* the staging directory (lines 385, 396, 442-444).
InContext(obj, directory, fname) ==
    IF Truthy(obj.dockerfile) THEN directory \o "/" \o fname ELSE fname

\* Lines 357-360.
pip_installs(obj) ==
    <<"RUN pip install "
        \o Concat([i \in 1..Len(obj.python_dependencies) |->
                      obj.python_dependencies[i] \o " "])>>

\* Lines 363-368: "ENV " and the k=v items joined by " \ ", a newline and
\* white space.
env_vars(obj) ==
    IF obj.env_vars = <<>> THEN <<"">>
    ELSE [i \in 1..Len(obj.env_vars) |->
             (IF i = 1 THEN "ENV " ELSE "")
                 \o obj.env_vars[i][1] \o "=" \o obj.env_vars[i][2]
                 \o (IF i < Len(obj.env_vars) THEN " \\ " ELSE "")]

\* Lines 371-386, the text: one COPY per entry of the files mapping.
copy_files(obj, directory) ==
    Terminated([i \in 1..Len(obj.files) |->
                   "COPY " \o InContext(obj, directory, basename(obj.files[i][1]))
                       \o " " \o obj.files[i][2]])

\* Lines 389-398, the text: one COPY per flow.
copy_flows(obj, directory) ==
    Terminated([i \in 1..Len(obj.flows) |->
                   "COPY " \o InContext(obj, directory,
                                        slugify(obj.flows[i][1]) \o ".flow")
                       \o " " \o obj.flows[i][2]])

\* Lines 401-403.
extra_commands(obj) ==
    Terminated([i \in 1..Len(obj.extra_commands) |-> "RUN " \o obj.extra_commands[i]])

\* Lines 415-419: the dockerfile's text after a newline, or FROM <base_image>.
base_commands(obj) ==
    IF Truthy(obj.dockerfile) THEN <<"">> \o Terminated(DockerfileText)
    ELSE <<"FROM " \o obj.base_image>>

\* Lines 436 and 447-450.
healthcheck_run(obj) ==
    "RUN python /root/.prefect/healthcheck.py '["
        \o JoinStr(", ", [i \in 1..Len(obj.flows) |-> "\"" \o obj.flows[i][2] \o "\""])
        \o "]' '" \o python_version_tuple \o "'"

\* The template with the COPY of the healthcheck script before the mkdir.
file_contents_copy_first(obj, directory) ==
    base_commands(obj)
        \o <<"", "RUN pip install pip --upgrade">>
        \o extra_commands(obj)
        \o pip_installs(obj)
        \o <<"">>
        \o <<"COPY " \o InContext(obj, directory, "healthcheck.py")
                \o " /root/.prefect/healthcheck.py">>
        \o <<"RUN mkdir -p /root/.prefect/">>
        \o copy_flows(obj, directory)
        \o copy_files(obj, directory)
        \o <<"">>
        \o env_vars(obj)
        \o <<"", healthcheck_run(obj), "">>

\* Lines 421-454: the template, each of its lines in its place.
file_contents(obj, directory) ==
    base_commands(obj)
        \o <<"", "RUN pip install pip --upgrade">>
        \o extra_commands(obj)
        \o pip_installs(obj)
        \o <<"", "RUN mkdir -p /root/.prefect/">>
        \o copy_flows(obj, directory)
        \o <<"COPY " \o InContext(obj, directory, "healthcheck.py")
                \o " /root/.prefect/healthcheck.py">>
        \o copy_files(obj, directory)
        \o <<"">>
        \o env_vars(obj)
        \o <<"", healthcheck_run(obj), "">>

\* Lines 371-413 and 455-457 on the staging directory of path directory and
\* entries dir: the user files, the pickled flows, the healthcheck script and
\* the Dockerfile, in this order.
create_dockerfile_object(obj, directory, dir) ==
    LET staged == StageFiles(obj.files, 1, dir)
    IN  IF staged.raised
        THEN [raised |-> TRUE, dir |-> staged.dir]
        ELSE [raised |-> FALSE,
              dir |-> WriteFile(WriteFile(StageFlows(obj, 1, staged.dir),
                                          "healthcheck.py", [script |-> "healthcheck"]),
                                "Dockerfile",
                                [text |-> file_contents(obj, directory)])]

----------------------------------------------------------------------------
(* Naming *)

\* str(PurePosixPath(a, b)) for a relative b.
PosixJoin(a, b) == IF a = "" THEN b ELSE a \o "/" \o b

\* An image reference "<repository>:<tag>", as the daemon reads it.
Ref(repository, tag) == [repo |-> repository, tag |-> tag]

\* ResolveName drawing a name whatever name the object has.
ResolveNameAgain(obj, uuid) ==
    IF Len(obj.flows) # 1 THEN uuid ELSE slugify(KeyList(obj.flows)[1])

\* ResolveName with a fixed default name in place of a uuid.
ResolveNameFixed(obj, uuid) ==
    IF Len(obj.flows) # 1
    THEN Or(obj.image_name, "prefect-flows")
    ELSE Or(obj.image_name, slugify(KeyList(obj.flows)[1]))

\* ResolveName taking the first flow's name whenever there is a flow.
ResolveNameFirstFlow(obj, uuid) ==
    IF Len(obj.flows) = 0
    THEN Or(obj.image_name, uuid)
    ELSE Or(obj.image_name, slugify(KeyList(obj.flows)[1]))

\* Lines 255-258: the image name build() settles on; uuid is what uuid.uuid4()
\* returns if it is called.
ResolveName(obj, uuid) ==
    IF Len(obj.flows) # 1
    THEN Or(obj.image_name, uuid)
    ELSE Or(obj.image_name, slugify(KeyList(obj.flows)[1]))

\* Line 260; now is what pendulum.now("utc").isoformat() returns if called.
ResolveTag(obj, now) == Or(obj.image_tag, slugify(now))

\* Pulls for every base image, local or not.
PullsLocalToo(obj) == Truthy(obj.base_image)

\* Line 290: whether build() pulls the base image.
Pulls(obj) == Truthy(obj.base_image) /\ ~obj.local_image

\* Lines 297-306: the repository the image is tagged with.
FullName(obj) ==
    IF Truthy(obj.registry_url)
    THEN PosixJoin(obj.registry_url, obj.image_name)
    ELSE obj.image_name

\* Lines 299-303: whether the missing-registry warning is issued.
WarnsNoRegistry(obj, push) == ~Truthy(obj.registry_url) /\ push = TRUE

\* ShouldPush not looking at the registry.
ShouldPushUnchecked(obj, push) == push

\* ShouldPush not looking at the push argument.
ShouldPushUnasked(obj, push) == Truthy(obj.registry_url)

\* Line 324: whether the built image is pushed.
ShouldPush(obj, push) == push /\ Truthy(obj.registry_url)

IncompleteIdentity == [type |-> "ValueError", what |-> "missing required fields"]

\* The name property without its check of the two fields.
Docker_name_unchecked(obj) ==
    [exc |-> NoError,
     ret |-> PosixJoin(Or(obj.registry_url, ""), obj.image_name)
                 \o ":" \o obj.image_tag]

\* Lines 222-228, the property Docker.name: the error, or the full name
\* "<registry>/<name>:<tag>" of the image.
Docker_name(obj) ==
    IF obj.image_name = None \/ obj.image_tag = None
    THEN [exc |-> IncompleteIdentity, ret |-> None]
    ELSE [exc |-> NoError,
          ret |-> PosixJoin(Or(obj.registry_url, ""), obj.image_name)
                      \o ":" \o obj.image_tag]

\* str.format on an optional str: None is printed as "None".
Str(x) == IF x = None THEN "None" ELSE x

\* Line 159: the image the runner creates its container from.
RunnerImage(obj) == Ref(Str(obj.image_name), Str(obj.image_tag))

\* client.images(name=...): the daemon's images of that repository, whatever
\* their tags.
Images(store, name) == {i \in store : i.repo = name}

----------------------------------------------------------------------------
(* The daemon's streams *)

\* A decoded line of a pull or push stream.
TransferRecords ==
    {[error |-> None, progress |-> None, status |-> "Pulling fs layer"],
     [error |-> None, progress |-> "[=====>   ]", status |-> "Downloading"],
     [error |-> "pull access denied", progress |-> None, status |-> None]}

\* pull_image going on after an error line.
PullRaisesNever(line) == FALSE

\* Lines 478-479: whether pull_image raises on this line.
PullRaises(line) == Truthy(line.error)

\* Lines 500-501: whether push_image raises on this line.
PushRaises(line) == Truthy(line.error)

\* A line of the build output.
BuildRecords ==
    {[stream |-> "Step 1/9 : FROM python", errorDetail |-> None],
     [stream |-> None, errorDetail |-> "The command returned a non-zero code: 1"]}

\* _parse_generator_output raising on an error line, as pull_image does.
ParseRaisesOnError(line) == Truthy(line.errorDetail)

\* Lines 510-518: whether _parse_generator_output raises on this line; it has
\* no raise statement.
ParseRaises(line) == FALSE

\* Lines 514-516: what _parse_generator_output prints for a line.
ParsedOutput(line) == Or(line.stream, line.errorDetail)

----------------------------------------------------------------------------
(* Constructor arguments *)

\* The files arguments: None, or a mapping with at most n of the source
\* paths S as its keys.
FileMappings(S, n) ==
    {NotGiven} \cup
    {Given([i \in 1..Len(s) |-> <<s[i], "/data/" \o basename(s[i])>>]) :
        s \in DistinctSeqs(S, n)}

DependencyArgs == {NotGiven, Given(<<>>), Given(<<"numpy">>)}
EnvArgs ==
    {NotGiven, Given(<<>>), Given(<< <<"KEY", "value">> >>),
     Given(<< <<"PREFECT__USER_CONFIG_PATH", "/etc/prefect.toml">> >>)}

ArgsOver(files, dependencies, envs, versions, libraries) ==
    [registry_url : RegistryUrls, base_image : BaseImages, dockerfile : Dockerfiles,
     python_dependencies : dependencies, image_name : ImageNames,
     image_tag : ImageTags, env_vars : envs, files : files,
     prefect_version : versions, version : libraries, local_image : BOOLEAN]

\* The constructor's own decisions: every combination of the arguments it
\* inspects; those it only stores are left to their defaults.
InitArgs ==
    {a \in ArgsOver(FileMappings({PathA, PathE, PathR}, MaxFiles), DependencyArgs,
                    EnvArgs, PrefectVersions, LibraryVersions) :
        a.registry_url = None /\ a.image_tag = None /\ a.local_image = FALSE}

\* The objects whose life the model follows: with or without a registry, a
\* dockerfile, a local base image, a name and a tag, and with no file, one
\* file, or two files of the same basename that differ.
LifeArgs ==
    {a \in ArgsOver({NotGiven, Given(<< <<PathA, "/data/a">> >>),
                     Given(<< <<PathA, "/data/a">>, <<PathD, "/data/d">> >>)},
                    {NotGiven}, {NotGiven}, {None}, {<<"0.7.3">>}) :
        a.base_image = None}

\* One plain object, for the registry.
PlainArgs ==
    {a \in LifeArgs : /\ a.registry_url = None /\ a.dockerfile = None
                      /\ a.image_name = None /\ a.image_tag = None
                      /\ a.files = NotGiven /\ a.local_image = FALSE}

\* Objects that pull, build and push, over every files mapping of absolute
\* paths.
StagingArgs ==
    {a \in ArgsOver(FileMappings({PathA, PathB, PathC, PathD, PathE}, MaxFiles),
                    {NotGiven}, {NotGiven}, {None}, {<<"0.7.3">>}) :
        /\ a.registry_url = "reg.io" /\ a.base_image = "python:3.6"
        /\ a.dockerfile = None /\ a.image_name = "explicit"
        /\ a.image_tag = "v1" /\ a.local_image = FALSE}

\* Objects that are built and then named and run: no files, no dockerfile,
\* the default base image.
UseArgs ==
    {a \in LifeArgs : a.files = NotGiven /\ a.dockerfile = None /\ ~a.local_image}

\* Objects whose Dockerfile is rendered: with a base image, a dockerfile or
\* neither, with and without dependencies, environment variables and files,
\* for a release and for master.
RenderArgs ==
    {a \in ArgsOver({NotGiven, Given(<< <<PathA, "/data/a.txt">> >>),
                     Given(<< <<PathA, "/data/a.txt">>, <<PathE, "/etc/extra.txt">> >>)},
                    {NotGiven, Given(<<"numpy">>)},
                    {NotGiven, Given(<< <<"KEY", "value">> >>)},
                    {None, "master"}, {<<"0.7.3">>}) :
        /\ a.registry_url = "reg.io" /\ a.image_name = "explicit"
        /\ a.image_tag = "v1" /\ a.local_image = FALSE}

\* The flows add_flow is called with while builds are followed, and in the
\* registry's own specification.
LifeFlows == {<<"My Flow!", "p1">>, <<"my flow", "p2">>}
RenderFlows == {"my flow", "etl"} \X {"p1"}
AllFlows  == FlowNames \X Payloads

----------------------------------------------------------------------------
(* State *)

VARIABLES
    phase,    \* "new": no object yet; "ready": constructed; "failed": __init__ raised
    args,     \* the arguments the constructor was called with
    caller,   \* the caller's dependency list and environment mapping after the call
    self,     \* the attributes of the Docker object
    pc,       \* "idle", or the position of the build() call in progress
    call,     \* the current or the last call on the object, and its outcome
    tempdir,  \* the staging directory of tempfile.TemporaryDirectory
    images,   \* the images in the daemon's local store
    builds    \* per build() call so far: the flows registered then, the
              \* uuid4() drawn (None if none was) and the image name settled on

vars == <<phase, args, caller, self, pc, call, tempdir, images, builds>>

NoDir == [exists |-> FALSE, parent |-> None, path |-> None, entries |-> EmptyDir]

\* The name tempfile gives the staging directory.
TempName == "tmp3k8x2pqd"

\* The record of a call: the method, its outcome, and what build() did.
\*   events:   the daemon and filesystem calls made, in order
\*   stream:   the lines consumed so far from the stream being read, kept
\*             when reading it raised
\*   warnings: the warnings issued
\*   produced: whether the daemon built and tagged an image for this call
\*   found:    whether the image lookup of line 318 returned any image
\*   tagged:   whether, when the images were looked up, the store held an
\*             image under this build's repository and tag
\*   image:     the image reference the runner passed to create_container
\*   container: the state of the container the runner created, None if it
\*              created none
\*   stops:     the client.stop calls the runner made
NewCall(op) ==
    [op |-> op, status |-> "running", exc |-> NoError, ret |-> None,
     arg |-> None, push |-> FALSE, events |-> <<>>, stream |-> <<>>,
     warnings |-> 0, full_name |-> None, had_name |-> FALSE, had_tag |-> FALSE,
     saw_error |-> FALSE, produced |-> FALSE, found |-> FALSE, tagged |-> FALSE,
     image |-> None, container |-> None, stops |-> 0]

Returned(c, ret) == [c EXCEPT !.status = "returned", !.ret = ret]
Raised(c, exc) == [c EXCEPT !.status = "raised", !.exc = exc]

\* The daemon's store when the model starts: an image of an earlier build,
\* under the name a storage may be given and an older tag.
OldImages == {Ref("explicit", "v0")}

Init ==
    /\ phase = "new"
    /\ args = None
    /\ caller = None
    /\ self = NoObject
    /\ pc = "idle"
    /\ call = NewCall("none")
    /\ tempdir = NoDir
    /\ images = OldImages
    /\ builds = <<>>

----------------------------------------------------------------------------
(* Construction and the registry *)

\* storage = Docker(...) with the keyword arguments a
Construct(a) ==
    /\ LET r == Docker__init__(a)
       IN  /\ phase' = IF r.exc = NoError THEN "ready" ELSE "failed"
           /\ args' = a
           /\ caller' = r.caller
           /\ self' = r.self
           /\ call' = IF r.exc = NoError THEN Returned(NewCall("__init__"), None)
                      ELSE Raised(NewCall("__init__"), r.exc)
    /\ UNCHANGED <<pc, tempdir, images, builds>>

New == phase = "new" /\ \E a \in LifeArgs : Construct(a)

NewAny == phase = "new" /\ \E a \in InitArgs : Construct(a)

NewPlain == phase = "new" /\ \E a \in PlainArgs : Construct(a)

NewStaging == phase = "new" /\ \E a \in StagingArgs : Construct(a)

NewUse == phase = "new" /\ \E a \in UseArgs : Construct(a)

NewRender == phase = "new" /\ \E a \in RenderArgs : Construct(a)

\* storage.add_flow(flow), for a flow of the given name and payload.
AddFlowOf(flow) ==
    /\ phase = "ready" /\ pc = "idle"
    /\ LET r == add_flow(self, flow[1], flow[2])
           c == [NewCall("add_flow") EXCEPT !.arg = flow]
       IN  /\ self' = r.self
           /\ call' = IF r.exc = NoError THEN Returned(c, r.ret)
                      ELSE Raised(c, r.exc)
    /\ UNCHANGED <<phase, args, caller, pc, tempdir, images, builds>>

AddFlow == \E flow \in LifeFlows : AddFlowOf(flow)

AddAnyFlow == \E flow \in AllFlows : AddFlowOf(flow)

AddRenderFlow == \E flow \in RenderFlows : AddFlowOf(flow)

----------------------------------------------------------------------------
(* build(): Docker.build and Docker._build_image, one action per daemon      *)
(* answer.  Nothing else runs while a build() call is in progress.          *)

StagingCollision == [type |-> "ValueError", what |-> "file already exists"]
BuildFailed == [type |-> "ValueError", what |-> "image failed to build"]
TransferFailed == [type |-> "InterruptedError", what |-> "transfer error"]
RemovalFailed == [type |-> "APIError", what |-> "remove_image"]

\* Leave without the removal of the staging directory.
LeaveKeeping(c) ==
    /\ pc' = "idle"
    /\ tempdir' = tempdir
    /\ call' = c

\* Leaving the `with tempfile.TemporaryDirectory(...)` block of lines 285-330,
\* by return or by exception, removes the staging directory.
Leave(c) ==
    /\ pc' = "idle"
    /\ tempdir' = NoDir
    /\ call' = [c EXCEPT !.events = Append(@, "rmtree")]

\* Lines 255-291: name and tag are settled, the staging directory is created
\* and, for a base image that is not local, the pull is requested.
Build ==
    /\ phase = "ready" /\ pc = "idle"
    /\ Len(builds) < MaxBuilds
    /\ \E push \in BOOLEAN,
          uuid \in (IF Len(self.flows) # 1 /\ ~Truthy(self.image_name)
                    THEN UUIDs ELSE {None}),
          now \in (IF Truthy(self.image_tag) THEN {None} ELSE Timestamps) :
          LET name == ResolveName(self, uuid)
              tag == ResolveTag(self, now)
              pulls == Pulls(self)
          IN  /\ self' = [self EXCEPT !.image_name = name, !.image_tag = tag]
              /\ builds' = Append(builds, [units |-> Len(self.flows), uuid |-> uuid,
                                            name |-> name])
              /\ tempdir' = [exists |-> TRUE,
                             parent |-> IF Truthy(self.dockerfile) THEN "." ELSE "/tmp",
                             path |-> (IF Truthy(self.dockerfile) THEN "." ELSE "/tmp")
                                          \o "/" \o TempName,
                             entries |-> EmptyDir]
              /\ call' = [NewCall("build") EXCEPT
                            !.push = push,
                            !.had_name = Truthy(self.image_name),
                            !.had_tag = Truthy(self.image_tag),
                            !.events = IF pulls THEN <<"mkdtemp", "pull">>
                                       ELSE <<"mkdtemp">>]
              /\ pc' = IF pulls THEN "pull" ELSE "stage"
    /\ UNCHANGED <<phase, args, caller, images>>

\* Lines 477-481: the daemon streams one more line of the pull.
PullRecord ==
    /\ pc = "pull"
    /\ Len(call.stream) < MaxStream
    /\ \E line \in TransferRecords :
          LET c == [call EXCEPT !.stream = Append(@, line)]
          IN  IF PullRaises(line)
              THEN Leave(Raised(c, TransferFailed))
              ELSE call' = c /\ UNCHANGED <<pc, tempdir>>
    /\ UNCHANGED <<phase, args, caller, self, images, builds>>

\* Line 482: the pull stream ends.
PullEnd ==
    /\ pc = "pull"
    /\ pc' = "stage"
    /\ call' = [call EXCEPT !.stream = <<>>]
    /\ UNCHANGED <<phase, args, caller, self, tempdir, images, builds>>

\* Lines 293-315: the build context is staged, the repository name is chosen
\* (with a warning when a push was asked for and there is no registry), and
\* the build is requested.
CreateDockerfile ==
    /\ pc = "stage"
    /\ LET r == create_dockerfile_object(self, tempdir.path, tempdir.entries)
       IN  IF r.raised
           THEN Leave(Raised([call EXCEPT !.events = Append(@, "stage")],
                             StagingCollision))
           ELSE /\ tempdir' = [tempdir EXCEPT !.entries = r.dir]
                /\ call' = [call EXCEPT
                              !.events = @ \o <<"stage", "build">>,
                              !.stream = <<>>,
                              !.full_name = FullName(self),
                              !.warnings = IF WarnsNoRegistry(self, call.push)
                                           THEN @ + 1 ELSE @]
                /\ pc' = "build"
    /\ UNCHANGED <<phase, args, caller, self, images, builds>>

\* Lines 510-518: the daemon streams one more line of build output, which
\* _parse_generator_output prints.
BuildRecord ==
    /\ pc = "build"
    /\ Len(call.stream) < MaxStream
    /\ \E line \in BuildRecords :
          LET c == [call EXCEPT !.stream = Append(@, line),
                                !.saw_error = @ \/ Truthy(line.errorDetail)]
          IN  IF ParseRaises(line)
              THEN Leave(Raised(c, BuildFailed))
              ELSE call' = c /\ UNCHANGED <<pc, tempdir>>
    /\ UNCHANGED <<phase, args, caller, self, images, builds>>

\* Lines 316-325: the build output ends; the daemon has tagged the new image
\* or, always after an error line, has not.  The image lookup decides between
\* raising, pushing and returning.
BuildEnd ==
    /\ pc = "build"
    /\ \E produced \in (IF call.saw_error THEN {FALSE} ELSE BOOLEAN) :
          LET store == IF produced
                       THEN images \cup {Ref(call.full_name, self.image_tag)}
                       ELSE images
              c == [call EXCEPT !.events = Append(@, "images"), !.stream = <<>>,
                                !.produced = produced,
                                !.found = Images(store, call.full_name) # {},
                                !.tagged = Ref(call.full_name, self.image_tag) \in store]
          IN  /\ images' = store
              /\ IF Images(store, call.full_name) = {}
                 THEN Leave(Raised(c, BuildFailed))
                 ELSE IF ShouldPush(self, call.push)
                 THEN /\ pc' = "push"
                      /\ call' = [c EXCEPT !.events = Append(@, "push")]
                      /\ UNCHANGED tempdir
                 ELSE Leave(Returned(c, "self"))
    /\ UNCHANGED <<phase, args, caller, self, builds>>

\* Lines 499-503: the daemon streams one more line of the push.
PushRecord ==
    /\ pc = "push"
    /\ Len(call.stream) < MaxStream
    /\ \E line \in TransferRecords :
          LET c == [call EXCEPT !.stream = Append(@, line)]
          IN  IF PushRaises(line)
              THEN Leave(Raised(c, TransferFailed))
              ELSE call' = c /\ UNCHANGED <<pc, tempdir>>
    /\ UNCHANGED <<phase, args, caller, self, images, builds>>

\* Line 504: the push stream ends.
PushEnd ==
    /\ pc = "push"
    /\ pc' = "remove"
    /\ call' = [call EXCEPT !.stream = <<>>]
    /\ UNCHANGED <<phase, args, caller, self, tempdir, images, builds>>

\* Lines 328-332: the pushed image is removed from the local store; the
\* daemon may refuse, and client.remove_image then raises.
RemoveImage ==
    /\ pc = "remove"
    /\ \E removed \in BOOLEAN :
          LET c == [call EXCEPT !.events = Append(@, "remove_image")]
          IN  IF removed
              THEN /\ images' = images \ {Ref(call.full_name, self.image_tag)}
                   /\ Leave(Returned(c, "self"))
              ELSE /\ images' = images
                   /\ Leave(Raised(c, RemovalFailed))
    /\ UNCHANGED <<phase, args, caller, self, builds>>

BuildSteps ==
    \/ Build
    \/ PullRecord
    \/ PullEnd
    \/ CreateDockerfile
    \/ BuildRecord
    \/ BuildEnd
    \/ PushRecord
    \/ PushEnd
    \/ RemoveImage

----------------------------------------------------------------------------
(* The name property and the runner of get_env_runner *)

\* storage.name
ReadName ==
    /\ phase = "ready" /\ pc = "idle"
    /\ LET r == Docker_name(self)
       IN  call' = IF r.exc = NoError THEN Returned(NewCall("name"), r.ret)
                   ELSE Raised(NewCall("name"), r.exc)
    /\ UNCHANGED <<phase, args, caller, self, pc, tempdir, images, builds>>

\* What the runner is called with: the location get_env_runner was given and
\* the environment variables.
RunnerArgs == {<<"/root/.prefect/flows/etl.prefect", << <<"KEY", "value">> >> >>}

\* The items of the output stream of the exec.
OutputItems == {"Flow run SUCCESS\n"}

ContainerFailed == [type |-> "APIError", what |-> "container"]
ExecFailed == [type |-> "APIError", what |-> "exec"]

\* Line 178, the finally clause: the container is stopped, and the runner
\* returns or raises what it was about to.
Stop(c) ==
    /\ pc' = "idle"
    /\ call' = [c EXCEPT !.events = Append(@, "stop"),
                         !.stream = <<>>,
                         !.container = "stopped",
                         !.stops = @ + 1]

\* Lines 159-161: runner(env) is called and asks for a container of the image
\* name:tag; the daemon creates one only from an image it holds.
Runner ==
    /\ phase = "ready" /\ pc = "idle"
    /\ \E a \in RunnerArgs,
          created \in (IF RunnerImage(self) \in images THEN BOOLEAN ELSE {FALSE}) :
          LET c == [NewCall("runner") EXCEPT !.arg = a,
                                             !.image = RunnerImage(self),
                                             !.events = <<"create_container">>]
          IN  IF created
              THEN /\ call' = [c EXCEPT !.container = "created"]
                   /\ pc' = "run_start"
              ELSE /\ call' = Raised(c, ContainerFailed)
                   /\ pc' = "idle"
    /\ UNCHANGED <<phase, args, caller, self, tempdir, images, builds>>

\* Line 162: the container is started, before the try statement.
RunStart ==
    /\ pc = "run_start"
    /\ \E started \in BOOLEAN :
          LET c == [call EXCEPT !.events = Append(@, "start")]
          IN  IF started
              THEN /\ call' = [c EXCEPT !.container = "running"]
                   /\ pc' = "run_exec"
              ELSE /\ call' = Raised(c, ContainerFailed)
                   /\ pc' = "idle"
    /\ UNCHANGED <<phase, args, caller, self, tempdir, images, builds>>

\* Lines 167-171: the exec is created.
RunExecCreate ==
    /\ pc = "run_exec"
    /\ \E ok \in BOOLEAN :
          LET c == [call EXCEPT !.events = Append(@, "exec_create")]
          IN  IF ok
              THEN call' = c /\ pc' = "run_exec_start"
              ELSE Stop(Raised(c, ExecFailed))
    /\ UNCHANGED <<phase, args, caller, self, tempdir, images, builds>>

\* Line 172: the exec is started.
RunExecStart ==
    /\ pc = "run_exec_start"
    /\ \E ok \in BOOLEAN :
          LET c == [call EXCEPT !.events = Append(@, "exec_start")]
          IN  IF ok
              THEN call' = c /\ pc' = "run_output"
              ELSE Stop(Raised(c, ExecFailed))
    /\ UNCHANGED <<phase, args, caller, self, tempdir, images, builds>>

\* Lines 173-176: one more item of the output arrives and is printed, or the
\* stream breaks.
RunOutput ==
    /\ pc = "run_output"
    /\ Len(call.stream) < MaxStream
    /\ \/ \E item \in OutputItems :
             /\ call' = [call EXCEPT !.stream = Append(@, item)]
             /\ pc' = pc
       \/ Stop(Raised(call, ExecFailed))
    /\ UNCHANGED <<phase, args, caller, self, tempdir, images, builds>>

\* The output ends and the runner returns None.
RunEnd ==
    /\ pc = "run_output"
    /\ Stop(Returned(call, None))
    /\ UNCHANGED <<phase, args, caller, self, tempdir, images, builds>>

RunnerSteps ==
    \/ Runner
    \/ RunStart
    \/ RunExecCreate
    \/ RunExecStart
    \/ RunOutput
    \/ RunEnd

----------------------------------------------------------------------------
(* Specifications *)

Next == New \/ AddFlow \/ BuildSteps

\* The life of one storage object: construction, add_flow and build calls.
Spec == Init /\ [][Next]_vars

\* Construction alone, over every combination of arguments.
SpecInit == Init /\ [][NewAny]_vars

NextRegistry == NewPlain \/ AddAnyFlow

\* The registry alone: add_flow over every flow name and payload.
SpecRegistry == Init /\ [][NextRegistry]_vars

NextStaging == NewStaging \/ BuildSteps

\* Builds over every files mapping.
SpecStaging == Init /\ [][NextStaging]_vars

NextRender == NewRender \/ AddRenderFlow \/ BuildSteps

\* Builds over the configurations that shape the Dockerfile.
SpecRender == Init /\ [][NextRender]_vars

NextUse == NewUse \/ BuildSteps \/ ReadName \/ RunnerSteps

\* The use of an object: builds, reads of its name, and runs.
SpecUse == Init /\ [][NextUse]_vars

----------------------------------------------------------------------------
(* Properties *)

\* C1: an add_flow call with a name that is already registered raises the
\* name-conflict ValueError and leaves self.flows and self._flows (the
\* payload registered first) as they were; with a new name it does not raise.
C1_DuplicateAddRaisesAndChangesNothing ==
    [][call'.op = "add_flow" =>
          IF call'.arg[1] \in Keys(self.flows)
          THEN /\ call'.status = "raised" /\ call'.exc = NameConflict
               /\ self'.flows = self.flows /\ self'._flows = self._flows
          ELSE call'.status = "returned"]_vars

\* A duplicate add, with another payload than the registered one, has raised.
C1_Witness ==
    /\ call.op = "add_flow" /\ call.exc = NameConflict
    /\ Get(self._flows, call.arg[1]) # call.arg[2]
    /\ Len(self.flows) = 2

BothGiven == args.base_image # None /\ args.dockerfile # None
RelativeKeys == {p \in Keys(OrEmpty(args.files)) : p[1] # "/"}

\* C2: the constructor raises the configuration ValueError when base_image
\* and dockerfile are both given; it succeeds when at most one is given and
\* every files key is absolute; with neither given the object gets a default
\* base image; no constructed object has both a base image and a dockerfile.
C2_BaseImageXorDockerfile ==
    phase # "new" =>
        /\ BothGiven => phase = "failed" /\ call.exc = ConfigurationError
        /\ (~BothGiven /\ RelativeKeys = {}) => phase = "ready"
        /\ phase = "ready" =>
              /\ (args.base_image = None /\ args.dockerfile = None)
                    => self.base_image \in {"prefecthq/prefect:0.7.3-python3.7",
                                            "python:3.7-slim"}
              /\ ~(Truthy(self.base_image) /\ Truthy(self.dockerfile))

\* The constructor has raised for a base image given with a dockerfile.
C2_Witness == phase = "failed" /\ BothGiven /\ RelativeKeys = {}

\* C3: the constructor raises the configuration ValueError whenever a key of
\* the files mapping is not absolute, so no constructed object (none that
\* build() could be called on) has such a key; with absolute keys only it
\* raises for no other reason than a base image given with a dockerfile.
C3_RelativeFilePathRaises ==
    phase # "new" =>
        /\ RelativeKeys # {} => phase = "failed" /\ call.exc = ConfigurationError
        /\ phase = "ready" => \A p \in Keys(self.files) : p[1] = "/"
        /\ (RelativeKeys = {} /\ phase = "failed") => BothGiven

\* The constructor has raised for a relative key that follows an absolute one.
C3_Witness ==
    /\ phase = "failed" /\ ~BothGiven
    /\ Len(OrEmpty(args.files)) = 2 /\ OrEmpty(args.files)[2][1] = PathR

\* Two entries of the files mapping have the same basename and different
\* contents: the second meets the first's copy in the staging directory.
SameNameOtherContent ==
    \E i, j \in 1..Len(self.files) :
        /\ i < j
        /\ basename(self.files[i][1]) = basename(self.files[j][1])
        /\ Disk(self.files[i][1]).content # Disk(self.files[j][1]).content

\* C4: staging a file onto a staged file of the same basename and other
\* contents raises the staging ValueError and the build goes no further;
\* onto one of the same contents it raises nothing, and every staged file
\* has the contents of its source.
C4_DifferentContentsCollide ==
    (phase = "ready" /\ call.op = "build") =>
        /\ pc = "build" => ~SameNameOtherContent
        /\ call.exc = StagingCollision => SameNameOtherContent
        /\ pc = "build" =>
              \A i \in 1..Len(self.files) :
                  tempdir.entries[basename(self.files[i][1])].content
                      = Disk(self.files[i][1]).content

\* C5: once image_name and image_tag are both set, no step of any call
\* (build, its daemon steps, add_flow) changes either.
C5_IdentityIsKept ==
    [][(phase = "ready" /\ Truthy(self.image_name) /\ Truthy(self.image_tag))
          => /\ self'.image_name = self.image_name
             /\ self'.image_tag = self.image_tag]_vars

\* A second build() has started on an object that had neither name nor tag
\* and no flow at its first build and has one flow now: it kept the uuid.
C5_Witness ==
    /\ Len(builds) = 2 /\ pc # "idle"
    /\ builds[1].units = 0 /\ builds[2].units = 1
    /\ args.image_name = None /\ args.image_tag = None
    /\ self.image_name = builds[1].uuid

C7_EveryBuildDrawsANewName ==
    (phase = "ready" /\ args.image_name = None) =>
        \A i \in 1..Len(builds) :
            builds[i].units = 0 =>
                /\ builds[i].name \in UUIDs
                /\ builds[i].uuid = builds[i].name
                /\ \A j \in 1..Len(builds) :
                      (j # i /\ builds[j].units = 0)
                          => builds[j].name # builds[i].name

\* C7 amended: on an object without a given name, the first build() call, if
\* made with no flow registered, draws a uuid (not empty) as the name; every
\* later build() call on the object draws none and keeps that name.
C7_FirstBuildDrawsTheName ==
    (phase = "ready" /\ args.image_name = None) =>
        \A i \in 1..Len(builds) :
            builds[i].units = 0 =>
                /\ builds[i].name \in UUIDs /\ builds[i].name # ""
                /\ builds[1].uuid = builds[i].name
                /\ \A j \in 1..Len(builds) :
                      j > 1 => builds[j].uuid = None /\ builds[j].name = builds[1].name

\* Two build() calls, both with no flow registered, on an object given no
\* name.
C7_Witness ==
    /\ phase = "ready" /\ args.image_name = None
    /\ Len(builds) = 2 /\ builds[1].units = 0 /\ builds[2].units = 0

Events == Range(call.events)
PushWithoutRegistry ==
    phase = "ready" /\ call.op = "build" /\ call.push /\ ~Truthy(self.registry_url)

\* C8 as stated: a build(push=True) call on an object without registry_url
\* never pushes, issues exactly one warning, raises nothing for the missing
\* registry (with the image found it returns), and leaves the image it built
\* in the daemon's store.
C8_WarnsOnEveryBuild ==
    (PushWithoutRegistry /\ call.status # "running") =>
        /\ "push" \notin Events /\ "remove_image" \notin Events
        /\ call.warnings = 1
        /\ call.status = "raised" => call.exc \in {TransferFailed, StagingCollision, BuildFailed}
        /\ call.produced => Ref(call.full_name, self.image_tag) \in images

\* C8 amended: such a call never pushes; it issues exactly one warning once
\* it gets as far as requesting the build, and none when the pull of the base
\* image or the staging of the files raised before; it raises only what the
\* pull, the staging or the image lookup raise; the image it built stays in
\* the daemon's store.
C8_WarnsOnceTheBuildIsRequested ==
    PushWithoutRegistry =>
        /\ "push" \notin Events /\ "remove_image" \notin Events
        /\ call.warnings = (IF "build" \in Events THEN 1 ELSE 0)
        /\ call.status = "raised" =>
              \/ call.exc = TransferFailed /\ "stage" \notin Events
              \/ call.exc = StagingCollision /\ "build" \notin Events
              \/ call.exc = BuildFailed /\ ~call.produced
        /\ (call.status # "running" /\ call.produced)
              => Ref(call.full_name, self.image_tag) \in images

\* A build(push=True) without registry has returned, having warned and built.
C8_Witness ==
    /\ PushWithoutRegistry /\ call.status = "returned"
    /\ call.warnings = 1 /\ call.produced
    /\ Ref(self.image_name, self.image_tag) \in images

\* C9: a build() call whose image lookup ran while the daemon held no image
\* under this build's repository and tag has raised the build-failed
\* ValueError.
C9_NoImageNoReturn ==
    (phase = "ready" /\ call.op = "build" /\ "images" \in Events /\ ~call.tagged)
        => call.status = "raised" /\ call.exc = BuildFailed

\* C10: pull_image and push_image go on reading only after lines without an
\* error; an error line is the last line read, and the call has then raised
\* the transfer InterruptedError, which nothing else raises.
C10_ErrorLineEndsTheTransfer ==
    (phase = "ready" /\ call.op = "build") =>
        /\ pc \in {"pull", "push"} =>
              \A i \in 1..Len(call.stream) : ~Truthy(call.stream[i].error)
        /\ call.exc = TransferFailed =>
              /\ pc = "idle" /\ call.status = "raised"
              /\ Len(call.stream) > 0
              /\ Truthy(call.stream[Len(call.stream)].error)
              /\ \A i \in 1..(Len(call.stream) - 1) :
                    ~Truthy(call.stream[i].error)
        /\ (pc = "idle" /\ call.exc # TransferFailed) => call.stream = <<>>

\* A push has raised on its second line, the first being a progress line.
C10_Witness ==
    /\ call.op = "build" /\ call.exc = TransferFailed
    /\ "push" \in Events
    /\ Len(call.stream) = 2
    /\ Truthy(call.stream[1].progress) /\ Truthy(call.stream[2].error)

BuildCall == phase = "ready" /\ call.op = "build"
Finished == call.status # "running"

\* The place of an event among the calls made by the current call, 0 if it
\* was not made.
Pos(e) == IF e \in Events THEN CHOOSE i \in 1..Len(call.events) : call.events[i] = e
          ELSE 0

\* C11: a staging directory exists exactly while a build() call is in
\* progress, under the working directory when a dockerfile is given; when
\* the call has returned or raised, whatever it raised, its first step was
\* the creation of the directory and its last the removal.
C11_StagingDirectoryIsRemoved ==
    phase = "ready" =>
        /\ pc = "idle" => ~tempdir.exists
        /\ pc # "idle" =>
              /\ tempdir.exists
              /\ tempdir.parent = (IF Truthy(self.dockerfile) THEN "." ELSE "/tmp")
        /\ (call.op = "build" /\ Finished) =>
              /\ pc = "idle"
              /\ call.events[1] = "mkdtemp"
              /\ call.events[Len(call.events)] = "rmtree"
              /\ \A i \in 1..Len(call.events) :
                    /\ call.events[i] = "mkdtemp" => i = 1
                    /\ call.events[i] = "rmtree" => i = Len(call.events)

\* A build with a dockerfile has raised on the removal of the pushed image,
\* and its staging directory is gone.
C11_Witness ==
    /\ BuildCall /\ call.exc = RemovalFailed
    /\ Truthy(self.dockerfile) /\ ~tempdir.exists

\* C13: a build() call that pushed and went on to remove the local image
\* returns, whether or not the daemon removed the image.
C13_RemovalFailureIsNotRaised ==
    (BuildCall /\ Finished /\ "remove_image" \in Events)
        => call.status = "returned" /\ call.exc = NoError

\* C15: a build() call pushes exactly when push was asked for, a registry is
\* configured and the image lookup found an image; it removes the local image
\* only after the push stream ended without an error line; a call that raised
\* the build-failed error pushed and removed nothing; a call that pushed and
\* returned tried the removal.
C15_PushAndRemovalOnlyWhenDue ==
    BuildCall =>
        /\ "push" \in Events
              <=> (call.push /\ Truthy(self.registry_url) /\ call.found)
        /\ pc = "push" => "push" \in Events /\ "remove_image" \notin Events
        /\ pc = "remove" => "push" \in Events /\ call.exc = NoError
        /\ "remove_image" \in Events =>
              /\ "push" \in Events /\ Pos("push") < Pos("remove_image")
              /\ call.exc # TransferFailed
        /\ call.exc = BuildFailed =>
              "push" \notin Events /\ "remove_image" \notin Events
        /\ (call.status = "returned" /\ "push" \in Events)
              => "remove_image" \in Events

\* A build(push=True) with a registry has pushed, removed the image and
\* returned.
C15_Witness ==
    /\ BuildCall /\ call.status = "returned" /\ call.push
    /\ Pos("push") > 0 /\ Pos("remove_image") = Pos("push") + 1

PullIsDue == Truthy(self.base_image) /\ ~self.local_image

\* C16 as stated: in a build() call the staging comes first, then the pull of
\* the base image, then the build request and the image lookup; the pull is
\* made exactly when a base image is set and is not local, never with a
\* dockerfile; after a failed pull no build is requested.
C16_StagedThenPulled ==
    BuildCall =>
        /\ "pull" \in Events => "stage" \in Events /\ Pos("stage") < Pos("pull")
        /\ "build" \in Events =>
              /\ "stage" \in Events /\ Pos("stage") < Pos("build")
              /\ "pull" \in Events => Pos("pull") < Pos("build")
        /\ "images" \in Events => Pos("build") > 0 /\ Pos("build") < Pos("images")
        /\ Finished => ("pull" \in Events <=> PullIsDue)
        /\ Truthy(self.dockerfile) => "pull" \notin Events
        /\ (call.exc = TransferFailed /\ "push" \notin Events)
              => "build" \notin Events

\* C16 amended: in a build() call the pull of the base image comes first,
\* then the staging, then the build request and the image lookup; the pull
\* is made exactly when a base image is set and is not local, never with a
\* dockerfile; after a failed pull nothing is staged and no build is
\* requested.
C16_PulledThenStaged ==
    BuildCall =>
        /\ "pull" \in Events <=> PullIsDue
        /\ Truthy(self.dockerfile) => "pull" \notin Events
        /\ ("stage" \in Events /\ "pull" \in Events) => Pos("pull") < Pos("stage")
        /\ "build" \in Events => "stage" \in Events /\ Pos("stage") < Pos("build")
        /\ "images" \in Events => Pos("build") > 0 /\ Pos("build") < Pos("images")
        /\ (call.exc = TransferFailed /\ "push" \notin Events)
              => "stage" \notin Events /\ "build" \notin Events

\* A build has pulled, staged, built and looked the image up, and returned.
C16_Witness ==
    /\ BuildCall /\ call.status = "returned"
    /\ Pos("pull") > 0 /\ Pos("stage") > Pos("pull") /\ Pos("images") > Pos("stage")

\* C17: while the build output is read the call goes on, whatever lines came,
\* and each error line is one _parse_generator_output prints; the call raises
\* the build-failed error only at the image lookup, and exactly when the
\* lookup found no image, with or without error lines before.
C17_ErrorLinesDoNotRaise ==
    BuildCall =>
        /\ pc = "build" =>
              /\ call.status = "running"
              /\ \A i \in 1..Len(call.stream) :
                    Truthy(call.stream[i].errorDetail)
                        => ParsedOutput(call.stream[i]) = call.stream[i].errorDetail
        /\ call.exc = BuildFailed => "images" \in Events
        /\ "images" \in Events => (call.exc = BuildFailed <=> ~call.found)

\* A build whose output had an error line has returned: the lookup found an
\* image.
C17_Witness ==
    /\ BuildCall /\ call.status = "returned" /\ call.saw_error /\ call.found

\* C19: after a construction that raised the configuration ValueError, the
\* dependency list and the environment mapping the caller passed in are as
\* they were passed.
C19_FailedConstructionLeavesArgumentsAlone ==
    (phase = "failed" /\ call.exc = ConfigurationError) =>
        /\ caller.python_dependencies = args.python_dependencies
        /\ caller.env_vars = args.env_vars

\* C12: when a call of the runner has returned or raised after it created a
\* container, the container is stopped and client.stop was called once.
C12_ContainerIsStoppedOnce ==
    (call.op = "runner" /\ Finished /\ call.container # None) =>
        /\ call.container = "stopped"
        /\ call.stops = 1

Unset == {f \in {"image_name", "image_tag"} : self[f] = None}

\* C14: a read of the name property raises the missing-fields ValueError
\* when image_name or image_tag is None; otherwise it returns name:tag for an
\* object without registry and registry/name:tag for one with a registry.
\* Once a build() call was made on the object, whatever became of it, the
\* property does not raise.
C14_NameNeedsNameAndTag ==
    phase = "ready" =>
        /\ call.op = "name" =>
              IF Unset # {}
              THEN call.status = "raised" /\ call.exc = IncompleteIdentity
              ELSE /\ call.status = "returned"
                   /\ call.ret = IF self.registry_url = None
                                 THEN self.image_name \o ":" \o self.image_tag
                                 ELSE self.registry_url \o "/" \o self.image_name
                                          \o ":" \o self.image_tag
        /\ Len(builds) > 0 =>
              /\ Unset = {}
              /\ Docker_name(self).exc = NoError
              /\ call.op = "name" => call.status = "returned"

\* The name was read after a build on an object with a registry, made
\* without name and tag.
C14_Witness ==
    /\ call.op = "name" /\ call.status = "returned"
    /\ Len(builds) = 1 /\ args.image_name = None /\ args.image_tag = None
    /\ call.ret = "reg.io/uuid-a:2019-11-05t15-32-00-00-00"

\* C20: a runner called while the daemon holds the image this object's build
\* tagged asks for its container under that reference, registry included;
\* and the image a build tagged is in the daemon's store when that build has
\* pushed and returned.
C20_RunsTheBuiltImage ==
    phase = "ready" =>
        /\ (/\ call.op = "runner" /\ Len(builds) > 0
            /\ Ref(FullName(self), self.image_tag) \in images)
              => call.image = Ref(FullName(self), self.image_tag)
        /\ (BuildCall /\ call.status = "returned" /\ call.produced /\ "push" \in Events)
              => Ref(call.full_name, self.image_tag) \in images

Rendered == "Dockerfile" \in DOMAIN tempdir.entries

\* The lines of the written Dockerfile that are not empty.
Directives == SelectSeq(tempdir.entries["Dockerfile"].text, LAMBDA l : l # "")

\* How a staged file is named in a COPY: by its name in the staging
\* directory, or by its path when a dockerfile is given.
Staged(fname) ==
    IF self.dockerfile = None THEN fname ELSE tempdir.path \o "/" \o fname

\* C18: the written Dockerfile is, empty lines aside: the base block (FROM
\* and the base image, or the lines of the given dockerfile); the pip
\* upgrade; one RUN per extra command, in the order of the list; one pip
\* install line with all dependencies, those given and then wheel; the mkdir;
\* one COPY per registered flow, in the order of registration; the COPY of
\* the healthcheck script; one COPY per entry of the files mapping; the ENV
\* block with every variable; and last the RUN of the healthcheck on the
\* list of the registered flows' locations.
C18_DirectivesInOrder ==
    Rendered =>
        LET D == Directives
            nb == IF self.dockerfile = None THEN 1 ELSE Len(DockerfileText)
            ne == Len(self.extra_commands)
            nf == Len(self.flows)
            nu == Len(self.files)
            nv == Len(self.env_vars)
            deps == nb + ne + 2
            hc == deps + nf + 2
        IN  /\ Len(D) = nb + ne + nf + nu + nv + 5
            /\ IF self.dockerfile = None
               THEN D[1] = "FROM " \o self.base_image
               ELSE SubSeq(D, 1, nb) = DockerfileText
            /\ D[nb + 1] = "RUN pip install pip --upgrade"
            /\ \A i \in 1..ne : D[nb + 1 + i] = "RUN " \o self.extra_commands[i]
            /\ self.python_dependencies
                  = OrEmpty(args.python_dependencies) \o <<"wheel">>
            /\ D[deps] = "RUN pip install "
                  \o JoinStr(" ", self.python_dependencies) \o " "
            /\ D[deps + 1] = "RUN mkdir -p /root/.prefect/"
            /\ \A i \in 1..nf :
                  D[deps + 1 + i]
                      = "COPY " \o Staged(slugify(self.flows[i][1]) \o ".flow")
                            \o " " \o FlowPath(self.flows[i][1])
            /\ D[hc] = "COPY " \o Staged("healthcheck.py")
                           \o " /root/.prefect/healthcheck.py"
            /\ \A i \in 1..nu :
                  D[hc + i] = "COPY " \o Staged(basename(self.files[i][1]))
                                  \o " " \o self.files[i][2]
            /\ nv > 0
            /\ \A i \in 1..nv :
                  D[hc + nu + i]
                      = (IF i = 1 THEN "ENV " ELSE "")
                            \o self.env_vars[i][1] \o "=" \o self.env_vars[i][2]
                            \o (IF i < nv THEN " \\ " ELSE "")
            /\ D[Len(D)]
                  = "RUN python /root/.prefect/healthcheck.py '["
                        \o JoinStr(", ", [i \in 1..nf |->
                                            "\"" \o FlowPath(self.flows[i][1]) \o "\""])
                        \o "]' '(3, 7)'"

\* A Dockerfile was written for an object with a dockerfile, two flows, two
\* files and two environment variables.
C18_Witness ==
    /\ Rendered /\ pc = "build" /\ self.dockerfile # None
    /\ Len(self.flows) = 2 /\ Len(self.files) = 2 /\ Len(self.env_vars) = 2

\* The pickled flows in the staging directory.
Blobs == {f \in DOMAIN tempdir.entries : "pickled" \in DOMAIN tempdir.entries[f]}

\* C21: flows registered under different names have different locations in
\* the image; and once a build has staged its context, the staging directory
\* holds one pickled flow per registered flow, each under its own file name
\* and each the flow registered under that name.
C21_OneBlobPerFlow ==
    phase = "ready" =>
        /\ \A i, j \in 1..Len(self.flows) :
              self.flows[i][1] # self.flows[j][1]
                  => self.flows[i][2] # self.flows[j][2]
        /\ Rendered =>
              /\ Cardinality(Blobs) = Len(self.flows)
              /\ \A i \in 1..Len(self.flows) :
                    LET blob == slugify(self.flows[i][1]) \o ".flow"
                    IN  /\ blob \in Blobs
                        /\ tempdir.entries[blob].pickled
                               = Get(self._flows, self.flows[i][1])

====
